---- MODULE Spec2Model ----
(***************************************************************************)
(* Model of src/background/libravatar.js: getAvatar(email, size), the      *)
(* resolution-and-validation pipeline of Auto-Avatars.                     *)
(*                                                                         *)
(* JavaScript strings are sequences of one-character strings, so that      *)
(* trim, toLowerCase, split and template concatenation are computed and    *)
(* not assumed.  One behaviour is one call of getAvatar; every value the   *)
(* call obtains from outside (a preference read, the discovery answer, a   *)
(* fetch outcome, the body bytes) is drawn when the code awaits it.        *)
(***************************************************************************)
EXTENDS Integers, Sequences, FiniteSets, TLC

VARIABLES pc, email, size, normalized, domain, dohOption, dnsData,
          contactsInstance, emailHash, route, avatarOption, resp,
          instanceOption, preferredInstance, contentTypeMeta, blob, result,
          requests, lookups, attempts, bodyReads, matcherCalls, conc

vars == <<pc, email, size, normalized, domain, dohOption, dnsData,
          contactsInstance, emailHash, route, avatarOption, resp,
          instanceOption, preferredInstance, contentTypeMeta, blob, result,
          requests, lookups, attempts, bodyReads, matcherCalls, conc>>

(***************************************************************************)
(* Bounds of the model.                                                    *)
(***************************************************************************)
\* longest filler between the leading and the trailing bytes of a body
MaxFill == 1

(***************************************************************************)
(* JavaScript values.                                                      *)
(***************************************************************************)
\* the values undefined and null, told apart from every character sequence
undefined == <<"undefined">>
null == <<"null">>

\* JavaScript truthiness of a string-or-absent value
IsTruthy(v) == v # undefined /\ v # null /\ v # <<>>

Lower == <<"a", "b", "c", "d", "e", "f", "g", "h", "i", "j", "k", "l", "m",
           "n", "o", "p", "q", "r", "s", "t", "u", "v", "w", "x", "y", "z">>
Upper == <<"A", "B", "C", "D", "E", "F", "G", "H", "I", "J", "K", "L", "M",
           "N", "O", "P", "Q", "R", "S", "T", "U", "V", "W", "X", "Y", "Z">>
WhiteSpace == {" ", "\t"}

\* String.prototype.toLowerCase
LowerChar(c) ==
  IF \E i \in 1..Len(Upper) : Upper[i] = c
    THEN Lower[CHOOSE i \in 1..Len(Upper) : Upper[i] = c]
    ELSE c
toLowerCase(s) == [i \in 1..Len(s) |-> LowerChar(s[i])]

\* String.prototype.trim
RECURSIVE TrimStart(_)
TrimStart(s) ==
  IF s # <<>> /\ Head(s) \in WhiteSpace THEN TrimStart(Tail(s)) ELSE s
RECURSIVE TrimEnd(_)
TrimEnd(s) ==
  IF s # <<>> /\ s[Len(s)] \in WhiteSpace
    THEN TrimEnd(SubSeq(s, 1, Len(s) - 1))
    ELSE s
trim(s) == TrimEnd(TrimStart(s))

\* String.prototype.split with a one-character separator: all the segments
RECURSIVE SplitFrom(_, _, _, _, _)
SplitFrom(s, sep, i, cur, acc) ==
  IF i > Len(s) THEN Append(acc, cur)
  ELSE IF s[i] = sep THEN SplitFrom(s, sep, i + 1, <<>>, Append(acc, cur))
  ELSE SplitFrom(s, sep, i + 1, Append(cur, s[i]), acc)
split(s, sep) == SplitFrom(s, sep, 1, <<>>, <<>>)

\* array[i] with JavaScript's zero-based index: undefined past the end
At(arr, i) == IF i + 1 <= Len(arr) THEN arr[i + 1] ELSE undefined

\* a non-negative integer in a template literal: its decimal digits
Digits == <<"0", "1", "2", "3", "4", "5", "6", "7", "8", "9">>
RECURSIVE ToDecimal(_)
ToDecimal(n) ==
  IF n < 10 THEN <<Digits[n + 1]>>
  ELSE Append(ToDecimal(n \div 10), Digits[(n % 10) + 1])

(***************************************************************************)
(* Imported collaborators.                                                 *)
(***************************************************************************)
DEFAULT_HOST ==
  <<"h", "t", "t", "p", "s", ":", "/", "/", "d", "e", "f", "a", "u", "l", "t",
    ".", "e", "x", "a", "m", "p", "l", "e">>
DEFAULT_AVATAR == <<"i", "d", "e", "n", "t", "i", "c", "o", "n">>

\* buildSecureUrl(target, port): the encrypted-transport base URL
buildSecureUrl(target, port) ==
  <<"h", "t", "t", "p", "s", ":", "/", "/">> \o target \o <<":">> \o ToDecimal(port)

\* sha256sum(text): a deterministic fixed-length hexadecimal identifier
HexDigits == <<"0", "1", "2", "3", "4", "5", "6", "7", "8", "9",
               "a", "b", "c", "d", "e", "f">>
HashAlphabet == Lower \o Upper \o Digits \o <<"@", ".", " ", "\t">>
CharCode(c) ==
  IF \E i \in 1..Len(HashAlphabet) : HashAlphabet[i] = c
    THEN CHOOSE i \in 1..Len(HashAlphabet) : HashAlphabet[i] = c
    ELSE 0
RECURSIVE Digest(_, _)
Digest(s, h) ==
  IF s = <<>> THEN h ELSE Digest(Tail(s), (h * 31 + CharCode(Head(s))) % 65536)
sha256sum(text) ==
  LET h == Digest(text, 7)
  IN <<HexDigits[(h \div 4096) + 1], HexDigits[((h \div 256) % 16) + 1],
       HexDigits[((h \div 16) % 16) + 1], HexDigits[(h % 16) + 1]>>

\* doSignaturesMatch(blob, signature, tail): the leading bytes equal the
\* signature and, when a tail is given, the final bytes equal the tail
doSignaturesMatch(bytes, signature, tail) ==
  /\ Len(bytes) >= Len(signature)
  /\ SubSeq(bytes, 1, Len(signature)) = signature
  /\ \/ tail = null
     \/ /\ Len(bytes) >= Len(tail)
        /\ SubSeq(bytes, Len(bytes) - Len(tail) + 1, Len(bytes)) = tail

(***************************************************************************)
(* SUPPORTED_CONTENT_TYPES                                                 *)
(***************************************************************************)
ImageJpg == <<"i", "m", "a", "g", "e", "/", "j", "p", "g">>
ImageJpeg == <<"i", "m", "a", "g", "e", "/", "j", "p", "e", "g">>
ImagePng == <<"i", "m", "a", "g", "e", "/", "p", "n", "g">>

NoMeta == [defined |-> FALSE, contentType |-> <<>>, signature |-> <<>>, tail |-> null]

SUPPORTED_CONTENT_TYPES ==
  (ImageJpg :> [defined |-> TRUE, contentType |-> ImageJpeg,
                signature |-> <<255, 216>>, tail |-> <<255, 217>>])
  @@ (ImagePng :> [defined |-> TRUE, contentType |-> ImagePng,
                   signature |-> <<137, 80, 78, 71, 13, 10, 26, 10>>,
                   tail |-> null])

\* SUPPORTED_CONTENT_TYPES.get(key): the entry, or undefined (NoMeta)
ContentTypeMetaOfAnyCase(key) ==
  IF toLowerCase(key) \in DOMAIN SUPPORTED_CONTENT_TYPES
    THEN SUPPORTED_CONTENT_TYPES[toLowerCase(key)]
    ELSE NoMeta
ContentTypeMetaOf(key) ==
  IF key \in DOMAIN SUPPORTED_CONTENT_TYPES
    THEN SUPPORTED_CONTENT_TYPES[key]
    ELSE NoMeta

(***************************************************************************)
(* The inputs of a call and the answers of its environment.                *)
(***************************************************************************)
\* getAvatar's arguments
CallInputs ==
  { [email |-> <<"A", "l", "i", "c", "e", "@", "E", "x", "a", "m", "p", "l", "e",
                 ".", "c", "o", "m">>, size |-> 80],
    [email |-> <<" ", "a", "l", "i", "c", "e", "@", "e", "x", "a", "m", "p", "l",
                 "e", ".", "c", "o", "m", "\t">>, size |-> 80],
    [email |-> <<"B", "@", "a", ".", "e", "x", "@", "c">>, size |-> 1],
    [email |-> <<"n", "o", "b", "o", "d", "y">>, size |-> 128] }

\* messenger.storage.sync.get('dohServer'): unset, cleared, or a resolver
DohServerValues ==
  { undefined, <<>>,
    <<"h", "t", "t", "p", "s", ":", "/", "/", "d", "o", "h", ".", "e", "x", "/", "q">> }

\* messenger.storage.sync.get('defaultAvatar'): unset, cleared, or a directive
DefaultAvatarValues == { undefined, <<>>, <<"r", "e", "t", "r", "o">> }

\* messenger.storage.sync.get('preferredInstance'): unset, cleared, the
\* default host spelled out, another instance, or the discovered instance
PreferredInstanceValues ==
  { undefined, <<>>, DEFAULT_HOST,
    <<"h", "t", "t", "p", "s", ":", "/", "/", "p", "r", "e", "f", ".", "e", "x">>,
    <<"h", "t", "t", "p", "s", ":", "/", "/", "a", ".", "e", "x", ":", "4", "4", "3">> }

\* the data of queryAvatarService's answer: none, or an SRV record
NoData == [defined |-> FALSE, target |-> <<>>, port |-> 0]
DnsAnswers ==
  { NoData,
    [defined |-> TRUE, target |-> <<"a", ".", "e", "x">>, port |-> 443],
    [defined |-> TRUE, target |-> <<"b", ".", "e", "x">>, port |-> 8443] }

\* queryAvatarService(domain, dohServer): a single lookup that resolves to
\* an answer object, with or without data, and does not reject
queryAvatarService(dom, server) == { [data |-> d] : d \in DnsAnswers }

\* the content-type header values a server may declare (null: no header)
DeclaredTypes ==
  { null, ImageJpg, ImagePng, ImageJpeg,
    <<"t", "e", "x", "t", "/", "h", "t", "m", "l">>,
    <<"I", "M", "A", "G", "E", "/", "P", "N", "G">>,
    ImagePng \o <<";", "q">> }

\* Response.ok
IsOk(status) == 200 <= status /\ status <= 299

NoResponse == [defined |-> FALSE, status |-> 0, contentType |-> null]
Responses ==
  { [defined |-> TRUE, status |-> 200, contentType |-> c] : c \in DeclaredTypes }
  \cup { [defined |-> TRUE, status |-> 404, contentType |-> c] : c \in {null, ImagePng} }

\* the bodies a server may send: leading bytes, filler, trailing bytes
PngSignature == <<137, 80, 78, 71, 13, 10, 26, 10>>
BodyHeads ==
  { <<>>, <<255>>, <<255, 216>>, PngSignature,
    SubSeq(PngSignature, 1, 7), SubSeq(PngSignature, 1, 7) \o <<11>> }
BodyFills == UNION { [1..n -> {0}] : n \in 0..MaxFill }
BodyTails == { <<>>, <<217>>, <<255, 217>>, <<255, 217, 0>> }
Bodies == { h \o f \o t : h \in BodyHeads, f \in BodyFills, t \in BodyTails }

\* getAvatar's outcome: still running, returned null, returned a File, or
\* rejected with an exception
Pending == [kind |-> "pending", name |-> <<>>, type |-> <<>>, bits |-> <<>>]
ReturnNull == [kind |-> "null", name |-> <<>>, type |-> <<>>, bits |-> <<>>]
Raised == [kind |-> "raised", name |-> <<>>, type |-> <<>>, bits |-> <<>>]

(***************************************************************************)
(* The expressions of getAvatar.                                           *)
(***************************************************************************)
\* line 50
NormalizeTrimOnly(e) == trim(e)
Normalize(e) == toLowerCase(trim(e))

\* line 51
DomainOf(n) == At(split(n, "@"), 1)

\* line 55
DiscoveryEnabledWhenStored(opt) == opt # undefined
DiscoveryEnabled(opt) == IsTruthy(opt)

\* line 60
ContactsInstanceUnchecked(d) == buildSecureUrl(d.target, d.port)
ContactsInstanceOf(d) ==
  IF d.defined THEN buildSecureUrl(d.target, d.port) ELSE DEFAULT_HOST

\* lines 63-69
RouteOfTwoValued(hash, sz, opt) ==
  LET base == <<"/", "a", "v", "a", "t", "a", "r", "/">> \o hash
                \o <<"?", "s", "=">> \o ToDecimal(sz)
  IN IF IsTruthy(opt) THEN base \o <<"&", "d", "=">> \o opt
     ELSE base \o <<"&", "d", "=">> \o DEFAULT_AVATAR
RouteOf(hash, sz, opt) ==
  LET base == <<"/", "a", "v", "a", "t", "a", "r", "/">> \o hash
                \o <<"?", "s", "=">> \o ToDecimal(sz)
  IN IF IsTruthy(opt) THEN base \o <<"&", "d", "=">> \o opt
     ELSE IF opt # <<>> THEN base \o <<"&", "d", "=">> \o DEFAULT_AVATAR
     ELSE base

\* line 79
NeedsFallbackAlways(r) == TRUE
NeedsFallback(r) == ~r.defined \/ ~IsOk(r.status)

\* line 81
PreferredInstanceIgnored(opt) == DEFAULT_HOST
PreferredInstanceOf(opt) == IF IsTruthy(opt) THEN opt ELSE DEFAULT_HOST

\* line 83
SameInstanceNever(preferred, contacts) == FALSE
SameInstanceInverted(preferred, contacts) == preferred # contacts
SameInstance(preferred, contacts) == preferred = contacts

\* lines 77 and 91-93: what a rejected fetch leaves of the call
CatchFetch1 == Pending
CatchFetch2Rethrows == Raised
CatchFetch2 == ReturnNull

\* lines 96-110: the gates before the body is read
PassesHeaderGatesStatusOnly(r) == IsOk(r.status)
PassesHeaderGates(r) ==
  /\ IsOk(r.status)
  /\ IsTruthy(r.contentType)
  /\ ContentTypeMetaOf(r.contentType).defined

\* line 119
PassesSignatureGateAlways(matches) == TRUE
PassesSignatureGate(matches) == matches

\* lines 123-127
FileOfWholeType(hash, meta, bytes) ==
  [kind |-> "file",
   name |-> hash \o <<".">> \o meta.contentType,
   type |-> meta.contentType,
   bits |-> bytes]
FileOf(hash, meta, bytes) ==
  [kind |-> "file",
   name |-> hash \o <<".">> \o At(split(meta.contentType, "/"), 1),
   type |-> meta.contentType,
   bits |-> bytes]

(***************************************************************************)
(* The call.                                                               *)
(***************************************************************************)
\* no concurrent calls are tracked while one call is followed alone
ConcOff == <<>>

Init ==
  /\ conc = ConcOff
  /\ \E c \in CallInputs : email = c.email /\ size = c.size
  /\ pc = "start"
  /\ normalized = undefined
  /\ domain = undefined
  /\ dohOption = undefined
  /\ dnsData = NoData
  /\ contactsInstance = undefined
  /\ emailHash = undefined
  /\ route = undefined
  /\ avatarOption = undefined
  /\ resp = NoResponse
  /\ instanceOption = undefined
  /\ preferredInstance = undefined
  /\ contentTypeMeta = NoMeta
  /\ blob = <<>>
  /\ result = Pending
  /\ requests = <<>>
  /\ lookups = 0
  /\ attempts = <<>>
  /\ bodyReads = 0
  /\ matcherCalls = 0

\* lines 50-56: normalize, read the dohServer preference and, when it is
\* set, send the discovery lookup
ReadDohOption ==
  /\ pc = "start"
  /\ \E v \in DohServerValues :
       /\ dohOption' = v
       /\ normalized' = Normalize(email)
       /\ domain' = DomainOf(Normalize(email))
       /\ IF DiscoveryEnabled(v)
            THEN lookups' = lookups + 1 /\ pc' = "query"
            ELSE lookups' = lookups /\ pc' = "resolve"
  /\ UNCHANGED <<conc, email, size, dnsData, contactsInstance, emailHash, route,
                 avatarOption, resp, instanceOption, preferredInstance,
                 contentTypeMeta, blob, result, requests, attempts, bodyReads,
                 matcherCalls>>

\* lines 56-57: the lookup resolves; its data is kept
QueryReturns ==
  /\ pc = "query"
  /\ \E answer \in queryAvatarService(domain, dohOption) :
       dnsData' = answer.data
  /\ pc' = "resolve"
  /\ UNCHANGED <<conc, email, size, normalized, domain, dohOption, contactsInstance,
                 emailHash, route, avatarOption, resp, instanceOption,
                 preferredInstance, contentTypeMeta, blob, result, requests,
                 lookups, attempts, bodyReads, matcherCalls>>

\* lines 60-61: choose the instance, hash the normalized address
ResolveInstance ==
  /\ pc = "resolve"
  /\ contactsInstance' = ContactsInstanceOf(dnsData)
  /\ emailHash' = sha256sum(normalized)
  /\ pc' = "route"
  /\ UNCHANGED <<conc, email, size, normalized, domain, dohOption, dnsData, route,
                 avatarOption, resp, instanceOption, preferredInstance,
                 contentTypeMeta, blob, result, requests, lookups, attempts,
                 bodyReads, matcherCalls>>

\* lines 63-69: build the route from the defaultAvatar preference
BuildRoute ==
  /\ pc = "route"
  /\ \E v \in DefaultAvatarValues :
       /\ avatarOption' = v
       /\ route' = RouteOf(emailHash, size, v)
  /\ pc' = "fetch1"
  /\ UNCHANGED <<conc, email, size, normalized, domain, dohOption, dnsData,
                 contactsInstance, emailHash, resp, instanceOption,
                 preferredInstance, contentTypeMeta, blob, result, requests,
                 lookups, attempts, bodyReads, matcherCalls>>

\* lines 71-76: send the first request
SendFetch1 ==
  /\ pc = "fetch1"
  /\ requests' = Append(requests, [instance |-> contactsInstance,
                                   url |-> contactsInstance \o route])
  /\ pc' = "await1"
  /\ UNCHANGED <<conc, email, size, normalized, domain, dohOption, dnsData,
                 contactsInstance, emailHash, route, avatarOption, resp,
                 instanceOption, preferredInstance, contentTypeMeta, blob,
                 result, lookups, attempts, bodyReads, matcherCalls>>

\* lines 73-79: the first request settles: it rejects (network error, TLS
\* failure, origin denial, the 3000 ms timeout) and is caught, or it
\* resolves to a response
Fetch1Returns ==
  /\ pc = "await1"
  /\ \/ /\ resp' = NoResponse
        /\ result' = CatchFetch1
        /\ attempts' = Append(attempts, "rejected")
     \/ \E r \in Responses :
          /\ resp' = r
          /\ result' = result
          /\ attempts' = Append(attempts, IF IsOk(r.status) THEN "ok" ELSE "notok")
  /\ pc' = IF result'.kind # "pending" THEN "done"
           ELSE IF NeedsFallback(resp') THEN "fallback" ELSE "check"
  /\ UNCHANGED <<conc, email, size, normalized, domain, dohOption, dnsData,
                 contactsInstance, emailHash, route, avatarOption,
                 instanceOption, preferredInstance, contentTypeMeta, blob,
                 requests, lookups, bodyReads, matcherCalls>>

\* lines 80-90 with the route built again, from a second read of the
\* defaultAvatar preference, for the second request
SelectFallbackRebuildsRoute ==
  /\ pc = "fallback"
  /\ \E v \in PreferredInstanceValues :
       /\ instanceOption' = v
       /\ preferredInstance' = PreferredInstanceOf(v)
  /\ \E a \in DefaultAvatarValues :
       /\ avatarOption' = a
       /\ route' = RouteOf(emailHash, size, a)
  /\ IF SameInstance(preferredInstance', contactsInstance)
       THEN /\ result' = ReturnNull
            /\ requests' = requests
            /\ pc' = "done"
       ELSE /\ result' = result
            /\ requests' = Append(requests, [instance |-> preferredInstance',
                                             url |-> preferredInstance' \o route'])
            /\ pc' = "await2"
  /\ UNCHANGED <<conc, email, size, normalized, domain, dohOption, dnsData,
                 contactsInstance, emailHash, resp, contentTypeMeta, blob,
                 lookups, attempts, bodyReads, matcherCalls>>

\* lines 80-90: read the preferredInstance preference; return null when the
\* fallback is the instance already tried, else send the second request
SelectFallback ==
  /\ pc = "fallback"
  /\ \E v \in PreferredInstanceValues :
       /\ instanceOption' = v
       /\ preferredInstance' = PreferredInstanceOf(v)
  /\ IF SameInstance(preferredInstance', contactsInstance)
       THEN /\ result' = ReturnNull
            /\ requests' = requests
            /\ pc' = "done"
       ELSE /\ result' = result
            /\ requests' = Append(requests, [instance |-> preferredInstance',
                                             url |-> preferredInstance' \o route])
            /\ pc' = "await2"
  /\ UNCHANGED <<conc, email, size, normalized, domain, dohOption, dnsData,
                 contactsInstance, emailHash, route, avatarOption, resp,
                 contentTypeMeta, blob, lookups, attempts, bodyReads,
                 matcherCalls>>

\* lines 87-93: the second request settles: a rejection ends the call
Fetch2Returns ==
  /\ pc = "await2"
  /\ \/ /\ resp' = resp
        /\ result' = CatchFetch2
        /\ attempts' = Append(attempts, "rejected")
     \/ \E r \in Responses :
          /\ resp' = r
          /\ result' = result
          /\ attempts' = Append(attempts, IF IsOk(r.status) THEN "ok" ELSE "notok")
  /\ pc' = IF result'.kind # "pending" THEN "done" ELSE "check"
  /\ UNCHANGED <<conc, email, size, normalized, domain, dohOption, dnsData,
                 contactsInstance, emailHash, route, avatarOption,
                 instanceOption, preferredInstance, contentTypeMeta, blob,
                 requests, lookups, bodyReads, matcherCalls>>

\* lines 96-112: status, content-type header and table lookup; when all
\* pass, start reading the body
CheckResponse ==
  /\ pc = "check"
  /\ IF PassesHeaderGates(resp)
       THEN /\ contentTypeMeta' = ContentTypeMetaOf(resp.contentType)
            /\ bodyReads' = bodyReads + 1
            /\ result' = result
            /\ pc' = "blob"
       ELSE /\ contentTypeMeta' = IF IsOk(resp.status) /\ IsTruthy(resp.contentType)
                                    THEN ContentTypeMetaOf(resp.contentType)
                                    ELSE contentTypeMeta
            /\ bodyReads' = bodyReads
            /\ result' = ReturnNull
            /\ pc' = "done"
  /\ UNCHANGED <<conc, email, size, normalized, domain, dohOption, dnsData,
                 contactsInstance, emailHash, route, avatarOption, resp,
                 instanceOption, preferredInstance, blob, requests, lookups,
                 attempts, matcherCalls>>

\* lines 112-113: resp.blob() settles: the body arrived and is handed to
\* the matcher, or the read rejected (connection dropped, timeout) and,
\* nothing catching it, getAvatar rejects
BlobReturns ==
  /\ pc = "blob"
  /\ \/ \E b \in Bodies :
          /\ blob' = b
          /\ matcherCalls' = matcherCalls + 1
          /\ result' = result
          /\ pc' = "match"
     \/ /\ blob' = blob
        /\ matcherCalls' = matcherCalls
        /\ result' = Raised
        /\ pc' = "done"
  /\ UNCHANGED <<conc, email, size, normalized, domain, dohOption, dnsData,
                 contactsInstance, emailHash, route, avatarOption, resp,
                 instanceOption, preferredInstance, contentTypeMeta, requests,
                 lookups, attempts, bodyReads>>

\* lines 113-127: the matcher's verdict: null, or the File
MatchReturns ==
  /\ pc = "match"
  /\ LET matches == doSignaturesMatch(blob, contentTypeMeta.signature,
                                      contentTypeMeta.tail)
     IN result' = IF PassesSignatureGate(matches)
                    THEN FileOf(emailHash, contentTypeMeta, blob)
                    ELSE ReturnNull
  /\ pc' = "done"
  /\ UNCHANGED <<conc, email, size, normalized, domain, dohOption, dnsData,
                 contactsInstance, emailHash, route, avatarOption, resp,
                 instanceOption, preferredInstance, contentTypeMeta, blob,
                 requests, lookups, attempts, bodyReads, matcherCalls>>

Next ==
  \/ ReadDohOption
  \/ QueryReturns
  \/ ResolveInstance
  \/ BuildRoute
  \/ SendFetch1
  \/ Fetch1Returns
  \/ SelectFallback
  \/ Fetch2Returns
  \/ CheckResponse
  \/ BlobReturns
  \/ MatchReturns

Spec == Init /\ [][Next]_vars

\* every await of the call settles: the storage reads and the hash resolve,
\* the lookup answers or gives up, and AbortSignal.timeout(3000) settles
\* each fetch and the body read it started
LiveSpec == Init /\ [][Next]_vars /\ WF_vars(Next)

(***************************************************************************)
(* Concurrent calls.  Several invocations of getAvatar run interleaved at  *)
(* their awaits.  conc.pc, conc.args and conc.out are per invocation by    *)
(* the language (position, parameters, returned promise); the const and    *)
(* let bindings of the function body live in conc.store, one record per    *)
(* scope.  conc.heard and conc.sent record what each call was answered     *)
(* and what it requested.                                                  *)
(***************************************************************************)
Calls == {"first", "second"}

\* the arguments of the concurrent calls
ConcArgs ==
  [c \in Calls |->
     IF c = "first"
       THEN [email |-> <<"A", "l", "i", "c", "e", "@", "E", "x", "a", "m", "p",
                         "l", "e", ".", "c", "o", "m">>, size |-> 80]
       ELSE [email |-> <<"n", "o", "b", "o", "d", "y">>, size |-> 128]]

\* the answers drawn for concurrent calls
ConcDohServerValues ==
  { undefined,
    <<"h", "t", "t", "p", "s", ":", "/", "/", "d", "o", "h", ".", "e", "x", "/", "q">> }
ConcDnsAnswers ==
  { NoData, [defined |-> TRUE, target |-> <<"a", ".", "e", "x">>, port |-> 443] }
ConcDefaultAvatarValues == { undefined, <<>> }
ConcPreferredInstanceValues ==
  { undefined,
    <<"h", "t", "t", "p", "s", ":", "/", "/", "p", "r", "e", "f", ".", "e", "x">> }
ConcFetchOutcomes ==
  { NoResponse,
    [defined |-> TRUE, status |-> 200, contentType |-> ImagePng],
    [defined |-> TRUE, status |-> 404, contentType |-> null] }
ConcBodies == { PngSignature \o <<0>>, <<0>> }

\* lines 50-112: the bindings declared in the body of getAvatar belong to
\* the invocation that declared them
ScopeOfModule(c) == "module"
ScopeOf(c) == c

NoLocals ==
  [normalized |-> undefined, domain |-> undefined, dnsData |-> NoData,
   contactsInstance |-> undefined, emailHash |-> undefined, route |-> undefined,
   resp |-> NoResponse, preferredInstance |-> undefined,
   contentTypeMeta |-> NoMeta, blob |-> <<>>]
NothingHeard ==
  [dohOption |-> undefined, dnsData |-> NoData, avatarOption |-> undefined,
   fetches |-> <<>>, instanceOption |-> undefined, body |-> <<>>,
   bodyFailed |-> FALSE]

\* the bindings call c reads and writes
Locals(c) == conc.store[ScopeOf(c)]

\* everything but the concurrent calls: left as it is while they run
main == <<pc, email, size, normalized, domain, dohOption, dnsData,
          contactsInstance, emailHash, route, avatarOption, resp,
          instanceOption, preferredInstance, contentTypeMeta, blob, result,
          requests, lookups, attempts, bodyReads, matcherCalls>>

ConcInit ==
  /\ conc = [pc |-> [c \in Calls |-> "start"],
             args |-> ConcArgs,
             store |-> [s \in {ScopeOf(c) : c \in Calls} |-> NoLocals],
             heard |-> [c \in Calls |-> NothingHeard],
             sent |-> [c \in Calls |-> <<>>],
             out |-> [c \in Calls |-> Pending]]
  /\ pc = "off"
  /\ email = <<>> /\ size = 0
  /\ normalized = undefined /\ domain = undefined
  /\ dohOption = undefined /\ dnsData = NoData
  /\ contactsInstance = undefined /\ emailHash = undefined
  /\ route = undefined /\ avatarOption = undefined
  /\ resp = NoResponse
  /\ instanceOption = undefined /\ preferredInstance = undefined
  /\ contentTypeMeta = NoMeta /\ blob = <<>>
  /\ result = Pending
  /\ requests = <<>> /\ lookups = 0 /\ attempts = <<>>
  /\ bodyReads = 0 /\ matcherCalls = 0

\* lines 50-56
ConcReadDohOption(c) ==
  /\ conc.pc[c] = "start"
  /\ \E v \in ConcDohServerValues :
       conc' = [conc EXCEPT
                  !.store[ScopeOf(c)].normalized = Normalize(conc.args[c].email),
                  !.store[ScopeOf(c)].domain = DomainOf(Normalize(conc.args[c].email)),
                  !.heard[c].dohOption = v,
                  !.pc[c] = IF DiscoveryEnabled(v) THEN "query" ELSE "resolve"]
  /\ UNCHANGED main

\* lines 56-57
ConcQueryReturns(c) ==
  /\ conc.pc[c] = "query"
  /\ \E d \in ConcDnsAnswers :
       conc' = [conc EXCEPT !.store[ScopeOf(c)].dnsData = d,
                            !.heard[c].dnsData = d,
                            !.pc[c] = "resolve"]
  /\ UNCHANGED main

\* lines 60-61
ConcResolveInstance(c) ==
  /\ conc.pc[c] = "resolve"
  /\ conc' = [conc EXCEPT
                !.store[ScopeOf(c)].contactsInstance = ContactsInstanceOf(Locals(c).dnsData),
                !.store[ScopeOf(c)].emailHash = sha256sum(Locals(c).normalized),
                !.pc[c] = "route"]
  /\ UNCHANGED main

\* lines 63-69
ConcBuildRoute(c) ==
  /\ conc.pc[c] = "route"
  /\ \E v \in ConcDefaultAvatarValues :
       conc' = [conc EXCEPT
                  !.store[ScopeOf(c)].route =
                     RouteOf(Locals(c).emailHash, conc.args[c].size, v),
                  !.heard[c].avatarOption = v,
                  !.pc[c] = "fetch1"]
  /\ UNCHANGED main

\* lines 71-76
ConcSendFetch1(c) ==
  /\ conc.pc[c] = "fetch1"
  /\ conc' = [conc EXCEPT
                !.sent[c] = Append(@, [instance |-> Locals(c).contactsInstance,
                                       url |-> Locals(c).contactsInstance
                                                 \o Locals(c).route]),
                !.pc[c] = "await1"]
  /\ UNCHANGED main

\* lines 73-79
ConcFetch1Returns(c) ==
  /\ conc.pc[c] = "await1"
  /\ \E r \in ConcFetchOutcomes :
       conc' = [conc EXCEPT
                  !.store[ScopeOf(c)].resp = r,
                  !.heard[c].fetches = Append(@, r),
                  !.pc[c] = IF NeedsFallback(r) THEN "fallback" ELSE "check"]
  /\ UNCHANGED main

\* lines 80-90
ConcSelectFallback(c) ==
  /\ conc.pc[c] = "fallback"
  /\ \E v \in ConcPreferredInstanceValues :
       LET preferred == PreferredInstanceOf(v)
       IN IF SameInstance(preferred, Locals(c).contactsInstance)
            THEN conc' = [conc EXCEPT
                            !.store[ScopeOf(c)].preferredInstance = preferred,
                            !.heard[c].instanceOption = v,
                            !.out[c] = ReturnNull,
                            !.pc[c] = "done"]
            ELSE conc' = [conc EXCEPT
                            !.store[ScopeOf(c)].preferredInstance = preferred,
                            !.heard[c].instanceOption = v,
                            !.sent[c] = Append(@, [instance |-> preferred,
                                                   url |-> preferred \o Locals(c).route]),
                            !.pc[c] = "await2"]
  /\ UNCHANGED main

\* lines 87-93
ConcFetch2Returns(c) ==
  /\ conc.pc[c] = "await2"
  /\ \E r \in ConcFetchOutcomes :
       IF r.defined
         THEN conc' = [conc EXCEPT !.store[ScopeOf(c)].resp = r,
                                   !.heard[c].fetches = Append(@, r),
                                   !.pc[c] = "check"]
         ELSE conc' = [conc EXCEPT !.heard[c].fetches = Append(@, r),
                                   !.out[c] = CatchFetch2,
                                   !.pc[c] = "done"]
  /\ UNCHANGED main

\* lines 96-112
ConcCheckResponse(c) ==
  /\ conc.pc[c] = "check"
  /\ IF PassesHeaderGates(Locals(c).resp)
       THEN conc' = [conc EXCEPT
                       !.store[ScopeOf(c)].contentTypeMeta =
                          ContentTypeMetaOf(Locals(c).resp.contentType),
                       !.pc[c] = "blob"]
       ELSE conc' = [conc EXCEPT !.out[c] = ReturnNull, !.pc[c] = "done"]
  /\ UNCHANGED main

\* lines 112-113
ConcBlobReturns(c) ==
  /\ conc.pc[c] = "blob"
  /\ \/ \E b \in ConcBodies :
          conc' = [conc EXCEPT !.store[ScopeOf(c)].blob = b,
                               !.heard[c].body = b,
                               !.pc[c] = "match"]
     \/ conc' = [conc EXCEPT !.heard[c].bodyFailed = TRUE,
                             !.out[c] = Raised,
                             !.pc[c] = "done"]
  /\ UNCHANGED main

\* lines 113-127
ConcMatchReturns(c) ==
  /\ conc.pc[c] = "match"
  /\ LET matches == doSignaturesMatch(Locals(c).blob,
                                      Locals(c).contentTypeMeta.signature,
                                      Locals(c).contentTypeMeta.tail)
     IN conc' = [conc EXCEPT
                   !.out[c] = IF PassesSignatureGate(matches)
                                THEN FileOf(Locals(c).emailHash,
                                            Locals(c).contentTypeMeta,
                                            Locals(c).blob)
                                ELSE ReturnNull,
                   !.pc[c] = "done"]
  /\ UNCHANGED main

ConcNext ==
  \E c \in Calls :
    \/ ConcReadDohOption(c)
    \/ ConcQueryReturns(c)
    \/ ConcResolveInstance(c)
    \/ ConcBuildRoute(c)
    \/ ConcSendFetch1(c)
    \/ ConcFetch1Returns(c)
    \/ ConcSelectFallback(c)
    \/ ConcFetch2Returns(c)
    \/ ConcCheckResponse(c)
    \/ ConcBlobReturns(c)
    \/ ConcMatchReturns(c)

ConcSpec == ConcInit /\ [][ConcNext]_vars

(***************************************************************************)
(* Properties.                                                             *)
(***************************************************************************)
Failed(outcome) == outcome \in {"rejected", "notok"}
StartsWith(bytes, prefix) ==
  Len(bytes) >= Len(prefix) /\ SubSeq(bytes, 1, Len(prefix)) = prefix
EndsWith(bytes, suffix) ==
  Len(bytes) >= Len(suffix)
  /\ SubSeq(bytes, Len(bytes) - Len(suffix) + 1, Len(bytes)) = suffix
PrefExample ==
  <<"h", "t", "t", "p", "s", ":", "/", "/", "p", "r", "e", "f", ".", "e", "x">>
AExample443 ==
  <<"h", "t", "t", "p", "s", ":", "/", "/", "a", ".", "e", "x", ":", "4", "4", "3">>
AliceMixedCase ==
  <<"A", "l", "i", "c", "e", "@", "E", "x", "a", "m", "p", "l", "e", ".", "c", "o", "m">>
AliceNormalized ==
  <<"a", "l", "i", "c", "e", "@", "e", "x", "a", "m", "p", "l", "e", ".", "c", "o", "m">>

\* C1: a call whose attempts all ended in a rejected fetch or a non-success
\* status ends with null; in particular when attempt 1 and attempt 2 both
\* failed.  No such call rejects, and none yields a File.
C1_AbsentWhenAttemptsFail ==
  (attempts # <<>> /\ Failed(attempts[Len(attempts)]))
    => /\ result.kind \in {"pending", "null"}
       /\ pc = "done" => result = ReturnNull
       /\ Len(attempts) = 2 => Failed(attempts[1])
C1_Witness ==
  /\ pc = "done"
  /\ attempts = <<"notok", "rejected">>
  /\ result = ReturnNull

\* C2: a File is returned only for a response with a success status, a
\* declared type image/jpg or image/png, a body that starts with that
\* type's signature and, for image/jpg, ends with its tail.  A success
\* response declaring image/png whose body does not start with the 8-byte
\* PNG signature yields null.
C2_FileOnlyIfValidated ==
  /\ result.kind = "file" =>
       /\ resp.defined /\ 200 <= resp.status /\ resp.status <= 299
       /\ resp.contentType \in {ImageJpg, ImagePng}
       /\ resp.contentType = ImageJpg =>
            StartsWith(result.bits, <<255, 216>>) /\ EndsWith(result.bits, <<255, 217>>)
       /\ resp.contentType = ImagePng =>
            StartsWith(result.bits, <<137, 80, 78, 71, 13, 10, 26, 10>>)
       /\ result.bits = blob
  /\ ( /\ pc = "done"
       /\ matcherCalls = 1
       /\ resp.contentType = ImagePng
       /\ ~StartsWith(blob, <<137, 80, 78, 71, 13, 10, 26, 10>>) )
       => result = ReturnNull
C2_Witness ==
  /\ pc = "done"
  /\ result.kind = "file"
  /\ resp.contentType = ImagePng
  /\ result.bits = <<137, 80, 78, 71, 13, 10, 26, 10, 0>>

\* C3: when attempt 1 failed and the fallback instance (the preference, or
\* the default host when the preference is absent) is the instance already
\* tried, the call returns null after exactly one request; so it does when
\* discovery gave no record and no preferred instance is stored.
C3_SkipsIdenticalFallback ==
  LET fallback == IF instanceOption = undefined THEN DEFAULT_HOST ELSE instanceOption
  IN /\ ( /\ pc = "done"
          /\ attempts # <<>> /\ Failed(attempts[1])
          /\ fallback = requests[1].instance )
          => result = ReturnNull /\ Len(requests) = 1 /\ Len(attempts) = 1
     /\ ( /\ pc = "done"
          /\ attempts # <<>> /\ Failed(attempts[1])
          /\ ~dnsData.defined /\ instanceOption = undefined )
          => result = ReturnNull /\ Len(requests) = 1 /\ Len(attempts) = 1
C3_Witness ==
  /\ pc = "done"
  /\ lookups = 1 /\ ~dnsData.defined
  /\ attempts = <<"rejected">>
  /\ instanceOption = undefined
  /\ Len(requests) = 1
  /\ result = ReturnNull

\* C4: a finished call has sent one or two requests, no call ever sends a
\* third, and two requests of a call go to two different base URLs.
C4_OneOrTwoDistinctRequests ==
  /\ Len(requests) <= 2
  /\ pc = "done" => Len(requests) >= 1
  /\ Len(requests) = 2 => requests[1].instance # requests[2].instance
C4_Witness ==
  /\ pc = "done"
  /\ Len(requests) = 2
  /\ requests[1].instance = DEFAULT_HOST
  /\ requests[2].instance = PrefExample

\* C5: the second request is sent only after attempt 1 has settled as a
\* rejection or a non-success status, at most one request is in flight, and
\* after a success status of attempt 1 no second request is sent.
C5_SequentialAttempts ==
  /\ Len(requests) = 2 => (attempts # <<>> /\ Failed(attempts[1]))
  /\ (attempts # <<>> /\ attempts[1] = "ok") => Len(requests) = 1
  /\ Len(requests) - Len(attempts) \in {0, 1}
C5_Witness ==
  /\ pc = "await2"
  /\ Len(requests) = 2
  /\ attempts = <<"notok">>

C7_InstanceResolution ==
  /\ lookups <= 1
  /\ (pc # "start" /\ dohOption \in {undefined, <<>>}) => lookups = 0
  /\ (pc \notin {"start", "query"} /\ dohOption \notin {undefined, <<>>}) => lookups = 1
  /\ requests # <<>> =>
       /\ requests[1].instance = contactsInstance
       /\ IF dohOption \notin {undefined, <<>>} /\ dnsData.defined
            THEN contactsInstance = buildSecureUrl(dnsData.target, dnsData.port)
            ELSE contactsInstance = DEFAULT_HOST
C7_Witness ==
  /\ requests # <<>>
  /\ lookups = 1
  /\ dnsData.defined
  /\ requests[1].instance = AExample443

\* C8: with a resolver stored and a lookup that yields no data, the call
\* does not reject at the discovery step: it goes on, and attempt 1 goes to
\* the default host.
C8_DiscoveryFailureAbsorbed ==
  (lookups = 1 /\ pc \notin {"start", "query"} /\ ~dnsData.defined) =>
    /\ pc \in {"resolve", "route", "fetch1"} => result = Pending
    /\ pc = "done" => requests # <<>>
    /\ requests # <<>> => requests[1].instance = DEFAULT_HOST
    /\ result.kind = "raised" => bodyReads = 1
C8_Witness ==
  /\ lookups = 1
  /\ ~dnsData.defined
  /\ pc = "await1"
  /\ requests[1].instance = DEFAULT_HOST

C10_Route ==
  /\ pc \notin {"start", "query", "resolve", "route"} =>
       /\ route = <<"/", "a", "v", "a", "t", "a", "r", "/">> \o emailHash
                    \o <<"?", "s", "=">> \o ToDecimal(size)
                    \o (IF avatarOption = undefined
                          THEN <<"&", "d", "=", "i", "d", "e", "n", "t", "i", "c", "o", "n">>
                        ELSE IF avatarOption = <<>> THEN <<>>
                        ELSE <<"&", "d", "=">> \o avatarOption)
       /\ emailHash = sha256sum(Normalize(email))
       /\ (email = AliceMixedCase /\ size = 80 /\ avatarOption = undefined) =>
            route = <<"/", "a", "v", "a", "t", "a", "r", "/">>
                      \o sha256sum(AliceNormalized)
                      \o <<"?", "s", "=", "8", "0", "&", "d", "=",
                           "i", "d", "e", "n", "t", "i", "c", "o", "n">>
  /\ \A i \in 1..Len(requests) :
       requests[i].url = requests[i].instance \o route
C10_Witness ==
  /\ email = AliceMixedCase /\ size = 80
  /\ dohOption = undefined /\ avatarOption = undefined
  /\ requests # <<>>
  /\ requests[1].url = DEFAULT_HOST \o <<"/", "a", "v", "a", "t", "a", "r", "/">>
                         \o sha256sum(AliceNormalized)
                         \o <<"?", "s", "=", "8", "0", "&", "d", "=",
                              "i", "d", "e", "n", "t", "i", "c", "o", "n">>
AlicePadded ==
  <<" ", "a", "l", "i", "c", "e", "@", "e", "x", "a", "m", "p", "l", "e", ".",
    "c", "o", "m", "\t">>

\* C11: "Alice@Example.com" and " alice@example.com<tab>", which differ only
\* in letter case and surrounding whitespace, get the identifier of
\* "alice@example.com", and their requests the path /avatar/<that hash>.
C11_HashIgnoresCaseAndPadding ==
  (email \in {AliceMixedCase, AlicePadded} /\ pc \notin {"start", "query", "resolve"}) =>
    /\ normalized = AliceNormalized
    /\ emailHash = sha256sum(AliceNormalized)
    /\ \A i \in 1..Len(requests) :
         StartsWith(requests[i].url,
                    requests[i].instance \o <<"/", "a", "v", "a", "t", "a", "r", "/">>
                      \o sha256sum(AliceNormalized) \o <<"?">>)
C11_Witness ==
  /\ email = AlicePadded
  /\ requests # <<>>
  /\ emailHash = sha256sum(AliceNormalized)
TextHtml == <<"t", "e", "x", "t", "/", "h", "t", "m", "l">>
\* the path and query of a request: its URL without the instance
PathOf(request) ==
  SubSeq(request.url, Len(request.instance) + 1, Len(request.url))
\* the text after the first occurrence of sep, or undefined without one
RECURSIVE AfterFirst(_, _)
AfterFirst(s, sep) ==
  IF s = <<>> THEN undefined
  ELSE IF Head(s) = sep THEN Tail(s)
  ELSE AfterFirst(Tail(s), sep)
HasAt(s) == \E i \in 1..Len(s) : s[i] = "@"

\* C14: a success response without a content-type header, or declaring a
\* type that is no key of the table, yields null without the body being
\* read or the matcher being called; the body is read only after the
\* lookup has found an entry.
C14_NoBodyReadForUnsupportedType ==
  /\ ( /\ attempts # <<>> /\ attempts[Len(attempts)] = "ok"
       /\ resp.contentType \notin {ImageJpg, ImagePng} )
       => /\ bodyReads = 0 /\ matcherCalls = 0
          /\ pc = "done" => result = ReturnNull
          /\ pc \in {"check", "done"}
  /\ bodyReads > 0 =>
       /\ resp.contentType \in {ImageJpg, ImagePng}
       /\ contentTypeMeta.defined
  /\ matcherCalls <= bodyReads /\ bodyReads <= 1
C14_Witness ==
  /\ pc = "done"
  /\ attempts = <<"ok">>
  /\ resp.contentType = TextHtml
  /\ result = ReturnNull
  /\ bodyReads = 0 /\ matcherCalls = 0
\* C15: no step of the response validator makes getAvatar reject: a failed
\* read of the body (connection dropped, timeout) ends the call with null.
C15_ValidatorNeverRaises ==
  (bodyReads > 0 /\ pc = "done") => result.kind \in {"null", "file"}

\* C16: the domain handed to discovery is all that follows the first '@'
\* of the normalized address, also when the address holds a second '@'.
C16_DomainIsAllAfterFirstAt ==
  (pc # "start" /\ HasAt(normalized)) => domain = AfterFirst(normalized, "@")

\* C17: for an address without '@' the call completes without rejecting,
\* with or without a resolver, and its outcome is null.
C17_NoAtYieldsAbsent ==
  (pc = "done" /\ ~HasAt(email)) => result = ReturnNull
\* C18: the route is built once, before the first request, and not changed
\* afterwards: a second request carries the path and query of the first
\* and differs from it only in the instance, whatever the preference
\* reads return later.
C18_SameRouteOnBothAttempts ==
  /\ requests # <<>> =>
       /\ PathOf(requests[1]) = route
       /\ StartsWith(requests[1].url, requests[1].instance)
  /\ Len(requests) = 2 =>
       /\ StartsWith(requests[2].url, requests[2].instance)
       /\ PathOf(requests[2]) = PathOf(requests[1])
       /\ requests[2].instance # requests[1].instance
C18_Witness ==
  /\ Len(requests) = 2
  /\ avatarOption = <<>>
  /\ instanceOption = PrefExample
  /\ requests[1].url = DEFAULT_HOST \o route
  /\ requests[2].url = PrefExample \o route

\* C19: the table's keys are image/jpg and image/png and the declared type
\* is looked up by string equality: a success response declaring anything
\* else (image/jpeg, upper case, a parameter after the type) yields null,
\* and the type of a returned File is image/jpeg or image/png.
C19_ExactAllowList ==
  /\ DOMAIN SUPPORTED_CONTENT_TYPES = {ImageJpg, ImagePng}
  /\ ( /\ pc = "done"
       /\ attempts # <<>> /\ attempts[Len(attempts)] = "ok"
       /\ resp.contentType \in (DeclaredTypes \ {ImageJpg, ImagePng}) )
       => result = ReturnNull
  /\ result.kind = "file" => result.type \in {ImageJpeg, ImagePng}
C19_Witness ==
  /\ pc = "done"
  /\ attempts = <<"notok", "ok">>
  /\ resp.contentType = <<"I", "M", "A", "G", "E", "/", "P", "N", "G">>
  /\ result = ReturnNull
\* the call ends, one way or another
EventuallyDone == <>(pc = "done")

\* C12: every call eventually returns a File or null, also when a remote
\* party stops answering during the lookup, a fetch or the body read.
C12_EventuallyReturns == <>(pc = "done" /\ result.kind \in {"file", "null"})
\* what a call with these arguments and these answers does when it is the
\* only call: its instance, route, requests and outcome
Validated(hash, r, h) ==
  IF ~(r.defined /\ IsOk(r.status) /\ r.contentType \in {ImageJpg, ImagePng})
    THEN ReturnNull
  ELSE IF h.bodyFailed THEN Raised
  ELSE IF r.contentType = ImagePng /\ StartsWith(h.body, <<137, 80, 78, 71, 13, 10, 26, 10>>)
    THEN [kind |-> "file", name |-> hash \o <<".", "p", "n", "g">>,
          type |-> ImagePng, bits |-> h.body]
  ELSE IF /\ r.contentType = ImageJpg
          /\ StartsWith(h.body, <<255, 216>>) /\ EndsWith(h.body, <<255, 217>>)
    THEN [kind |-> "file", name |-> hash \o <<".", "j", "p", "e", "g">>,
          type |-> ImageJpeg, bits |-> h.body]
  ELSE ReturnNull
Alone(args, h) ==
  LET hash == sha256sum(toLowerCase(trim(args.email)))
      instance == IF h.dohOption \notin {undefined, <<>>} /\ h.dnsData.defined
                    THEN buildSecureUrl(h.dnsData.target, h.dnsData.port)
                    ELSE DEFAULT_HOST
      path == <<"/", "a", "v", "a", "t", "a", "r", "/">> \o hash
                \o <<"?", "s", "=">> \o ToDecimal(args.size)
                \o (IF h.avatarOption = undefined THEN <<"&", "d", "=">> \o DEFAULT_AVATAR
                    ELSE IF h.avatarOption = <<>> THEN <<>>
                    ELSE <<"&", "d", "=">> \o h.avatarOption)
      fallback == IF h.instanceOption \in {undefined, <<>>}
                    THEN DEFAULT_HOST ELSE h.instanceOption
      first == [instance |-> instance, url |-> instance \o path]
      second == [instance |-> fallback, url |-> fallback \o path]
      r1 == h.fetches[1]
  IN IF h.fetches = <<>>
       THEN [sent |-> <<first>>, out |-> Pending]
     ELSE IF r1.defined /\ IsOk(r1.status)
       THEN [sent |-> <<first>>, out |-> Validated(hash, r1, h)]
     ELSE IF fallback = instance
       THEN [sent |-> <<first>>, out |-> ReturnNull]
     ELSE [sent |-> <<first, second>>, out |-> Validated(hash, h.fetches[2], h)]

\* C13: under every interleaving of concurrent calls, a finished call has
\* sent the requests and has the outcome that its own arguments and the
\* answers it received give when it runs alone; a call in flight has sent
\* its first request to its own instance with its own route.
C13_CallsDoNotInterfere ==
  \A c \in Calls :
    /\ conc.pc[c] = "done" =>
         /\ conc.sent[c] = Alone(conc.args[c], conc.heard[c]).sent
         /\ conc.out[c] = Alone(conc.args[c], conc.heard[c]).out
    /\ conc.pc[c] = "await1" =>
         /\ conc.sent[c] = Alone(conc.args[c], conc.heard[c]).sent
         /\ conc.out[c] = Alone(conc.args[c], conc.heard[c]).out
C13_Witness ==
  /\ conc.pc["first"] = "done"
  /\ conc.out["first"].kind = "file"
  /\ Len(conc.sent["first"]) = 2
  /\ conc.pc["second"] = "await2"
  /\ conc.heard["second"].dohOption = undefined
  /\ conc.heard["first"].dohOption # undefined
====
